---- MODULE Spec2Model ----
(***************************************************************************)
(* Verification model of three parts of the in-browser-ai repository:      *)
(*   - Img2ImgModel.process / prepareImage / runInference                  *)
(*       (src/src/image/img2imgModel.ts), specification Spec;              *)
(*   - the ImageCaption page (src/unnamed/part_000), specification         *)
(*       SpecCaption;                                                      *)
(*   - ListTextModels over the text model catalog                          *)
(*       (src/src/text/models.ts), specification SpecList.                 *)
(*                                                                         *)
(* JavaScript numbers that can be undefined/NaN are modelled as tuples:    *)
(* <<n>> is the number n, <<>> is NaN (undefined coerces to NaN in every   *)
(* arithmetic use the code makes of it).  Tensor values are rationals      *)
(* n / ValueDen, held as <<n>>.  JavaScript strings of the caption page    *)
(* are sequences of one-character strings.                                 *)
(***************************************************************************)
EXTENDS Integers, Sequences, FiniteSets

VARIABLES
  \* Img2ImgModel instance fields
  initialized, preprocessor, sessions,
  \* one process(input, resize) call
  pc, input, resize, image, sessionRuns, output, plan, result, error,
  \* ImageCaption page: React state, DOM input value, calls in flight
  imageURL, caption, model, status, prefixValue, loading, reading, procs,
  \* one ListTextModels(tags, type) call
  ltPc, ltTags, ltType, ltResult

imgVars == <<initialized, preprocessor, sessions, pc, input, resize, image,
             sessionRuns, output, plan, result, error>>
pageVars == <<imageURL, caption, model, status, prefixValue, loading, reading, procs>>
listVars == <<ltPc, ltTags, ltType, ltResult>>
vars == <<imgVars, pageVars, listVars>>

----------------------------------------------------------------------------
(* Bounds of the model *)

MaxDim == 3
MaxResize == 2
MaxPadSize == 3
MaxOut == 4
MaxSeed == 2
MaxProcs == 2
MaxPieces == 2
MaxLoads == 1
MaxReads == 1
MaxTags == 2

----------------------------------------------------------------------------
(* JavaScript numbers *)

NaN == <<>>
Num(n) == <<n>>
IsNum(v) == v # NaN

JSub(a, b) == IF IsNum(a) /\ IsNum(b) THEN Num(a[1] - b[1]) ELSE NaN
JMul(a, b) == IF IsNum(a) /\ IsNum(b) THEN Num(a[1] * b[1]) ELSE NaN

\* Math.ceil(a / b) for integers a >= 0, b >= 1
CeilDiv(a, b) == (a + b - 1) \div b

\* Math.round(num / den) for num >= 0, den >= 1: halves round up
RoundDiv(num, den) == (2 * num + den) \div (2 * den)

Max(a, b) == IF a > b THEN a ELSE b

\* dims[i] of a tensor (0-based index); undefined past the rank
Dim(dims, i) == IF i < Len(dims) THEN Num(dims[i + 1]) ELSE NaN

Product(dims) == IF Len(dims) = 3 THEN dims[1] * dims[2] * dims[3]
                 ELSE dims[1] * dims[2] * dims[3] * dims[4]

----------------------------------------------------------------------------
(* Tensor values and the pixel conversion *)

\* tensor values are held in units of 1 / ValueDen
ValueDen == 4 * 255

\* sample values: -1, -1/1020, 0, 3/1020, 1/4, 126.5/255, 127/255, 1/2, 1,
\* 1 + 1/1020, 2, NaN
Samples == << Num(0 - ValueDen), Num(0 - 1), Num(0), Num(3), Num(255), Num(506),
              Num(508), Num(510), Num(ValueDen), Num(ValueDen + 1),
              Num(2 * ValueDen), NaN >>

\* output.data[i]: undefined outside the buffer
DataAt(out, i) ==
  IF i >= 0 /\ i < Product(out.dims)
  THEN Samples[((i + out.seed) % Len(Samples)) + 1]
  ELSE NaN

ClampFlipped(value) ==
  IF ~IsNum(value) THEN value
  ELSE IF value[1] < 0 THEN Num(ValueDen)
  ELSE IF value[1] > ValueDen THEN Num(0)
  ELSE value

\* lines 77-83: if (value < 0) value = 0 else if (value > 1) value = 1
Clamp(value) ==
  IF ~IsNum(value) THEN value
  ELSE IF value[1] < 0 THEN Num(0)
  ELSE IF value[1] > ValueDen THEN Num(ValueDen)
  ELSE value

\* value *= 255.0 : the result is value[1] * 255 / ValueDen
Scale255(value) == IF IsNum(value) THEN Num(value[1] * 255) ELSE NaN

\* the store into a Uint8ClampedArray of scaled[1] / ValueDen:
\* NaN stores 0, otherwise clamp to 0..255 and round to nearest, ties to even
ToUint8Clamp(scaled) ==
  IF ~IsNum(scaled) THEN 0
  ELSE IF scaled[1] <= 0 THEN 0
  ELSE IF scaled[1] >= 255 * ValueDen THEN 255
  ELSE LET q == scaled[1] \div ValueDen
           r == scaled[1] % ValueDen
       IN IF 2 * r < ValueDen THEN q
          ELSE IF 2 * r > ValueDen THEN q + 1
          ELSE IF q % 2 = 0 THEN q ELSE q + 1

\* lines 76-85 for one channel value
ChannelByte(value) == ToUint8Clamp(Scale255(Clamp(value)))

----------------------------------------------------------------------------
(* Img2ImgModel: configuration values *)

NoConfig == [present |-> FALSE, pad |-> FALSE, padSize |-> 0]
Configs ==
  {NoConfig}
    \cup {[present |-> TRUE, pad |-> b, padSize |-> p] : b \in BOOLEAN, p \in 1..MaxPadSize}

NoPreprocessor == [present |-> FALSE, config |-> NoConfig]
Preprocessors == {NoPreprocessor} \cup {[present |-> TRUE, config |-> c] : c \in Configs}

\* this.sessions: undefined, or a map from role names to sessions
SessionMaps == {[present |-> FALSE, roles |-> {}],
                [present |-> TRUE, roles |-> {"encoder"}],
                [present |-> TRUE, roles |-> {"model"}]}

\* what Jimp.read(input) decodes: an image, or an input it rejects
InvalidInput == [ok |-> FALSE, width |-> 0, height |-> 0]
Inputs ==
  {InvalidInput}
    \cup {[ok |-> TRUE, width |-> w, height |-> h] : w \in 1..MaxDim, h \in 1..MaxDim}
    \cup {[ok |-> TRUE, width |-> 100, height |-> 60]}
Resizes == 0..MaxResize \cup {50}

NoImage == [width |-> 0, height |-> 0]

\* output tensors of the forward pass: channels x height x width, with or
\* without the leading batch dimension
Channels == {3, 4}
OutputDims ==
  {<<c, h, w>> : c \in Channels, h \in 1..MaxOut, w \in 1..MaxOut}
    \cup {<<1, c, h, w>> : c \in Channels, h \in 1..MaxOut, w \in 1..MaxOut}
Outputs == {[dims |-> d, seed |-> s] : d \in OutputDims, s \in 0..MaxSeed}
NoOutput == [dims |-> <<>>, seed |-> 0]

----------------------------------------------------------------------------
(* Img2ImgModel.prepareImage *)

\* Jimp's resize rounds each requested size: Math.round(w) || 1
JimpRound(num, den) == LET r == RoundDiv(num, den) IN IF r = 0 THEN 1 ELSE r

prepareImageUpscaling(img, rs) ==
  LET maxDimension == Max(img.width, img.height)
  IN IF maxDimension < rs
     THEN [width |-> JimpRound(img.width * rs, maxDimension),
           height |-> JimpRound(img.height * rs, maxDimension)]
     ELSE [width |-> img.width, height |-> img.height]

\* scale = resize / maxDimension; image.resize(width * scale, height * scale)
prepareImage(img, rs) ==
  LET maxDimension == Max(img.width, img.height)
  IN IF maxDimension > rs
     THEN [width |-> JimpRound(img.width * rs, maxDimension),
           height |-> JimpRound(img.height * rs, maxDimension)]
     ELSE [width |-> img.width, height |-> img.height]

\* lines 39-42: the bitmap process works on
ReadImage(in, rs) ==
  IF rs > 0 THEN prepareImage(in, rs) ELSE [width |-> in.width, height |-> in.height]

----------------------------------------------------------------------------
(* Img2ImgModel.process: the crop, lines 48-68 *)

\* Math.ceil(n / padSize) * padSize
PaddedSize(n, padSize) == CeilDiv(n, padSize) * padSize

\* Math.floor((diff * (outDim / padded)) / 2), NaN when outDim is undefined
PadOffset(diff, outDim, padded) ==
  IF IsNum(outDim) THEN Num((diff * outDim[1]) \div (2 * padded)) ELSE NaN

PadEnabled(pre) == pre.present /\ pre.config.present /\ pre.config.pad

CropPlanAlwaysPad(pre, img, dims) ==
  LET padSize == IF pre.config.present THEN pre.config.padSize ELSE 1
      paddedWidth == PaddedSize(img.width, padSize)
      paddedHeight == PaddedSize(img.height, padSize)
      xPad == PadOffset(paddedWidth - img.width, Dim(dims, 3), paddedWidth)
      yPad == PadOffset(paddedHeight - img.height, Dim(dims, 2), paddedHeight)
      endX == JSub(Dim(dims, 3), xPad)
      endY == JSub(Dim(dims, 2), yPad)
  IN [startX |-> xPad, startY |-> yPad, endX |-> endX, endY |-> endY,
      width |-> JSub(endX, xPad), height |-> JSub(endY, yPad)]

CropPlan(pre, img, dims) ==
  IF PadEnabled(pre)
  THEN LET padSize == pre.config.padSize
           paddedWidth == PaddedSize(img.width, padSize)
           xDiff == paddedWidth - img.width
           paddedHeight == PaddedSize(img.height, padSize)
           yDiff == paddedHeight - img.height
           xPad == PadOffset(xDiff, Dim(dims, 3), paddedWidth)
           yPad == PadOffset(yDiff, Dim(dims, 2), paddedHeight)
           endX == JSub(Dim(dims, 3), xPad)
           endY == JSub(Dim(dims, 2), yPad)
       IN [startX |-> xPad, startY |-> yPad, endX |-> endX, endY |-> endY,
           width |-> JSub(endX, xPad), height |-> JSub(endY, yPad)]
  ELSE [startX |-> Num(0), startY |-> Num(0),
        endX |-> Dim(dims, 3), endY |-> Dim(dims, 2),
        width |-> JSub(Dim(dims, 3), Num(0)), height |-> JSub(Dim(dims, 2), Num(0))]

NoPlan == [startX |-> NaN, startY |-> NaN, endX |-> NaN, endY |-> NaN,
           width |-> NaN, height |-> NaN]

----------------------------------------------------------------------------
(* Img2ImgModel.process: the pixel loop, lines 69-110 *)

\* new ArrayBuffer(width * height * 4): a NaN length is length 0
BufferLength(p) ==
  LET n == JMul(JMul(p.width, p.height), Num(4))
  IN IF IsNum(n) /\ n[1] > 0 THEN n[1] ELSE 0

tensorIdxCropStride(p, dims, x, y) == (y + p.startY[1]) * p.width[1] + x + p.startX[1]

\* line 75
tensorIdx(p, dims, x, y) == (y + p.startY[1]) * dims[4] + x + p.startX[1]

\* lines 76-108 for pixel (x, y): the byte written at pixIdx + c
PixelByte(out, p, x, y, c) ==
  LET size == out.dims[3] * out.dims[4]
  IN IF c = 3 THEN 255
     ELSE ChannelByte(DataAt(out, c * size + tensorIdx(p, out.dims, x, y)))

PixelsNoAlpha(out, p) ==
  IF ~(IsNum(p.width) /\ IsNum(p.height)) THEN <<>>
  ELSE LET width == p.width[1]
       IN [i \in 1..BufferLength(p) |->
             LET pix == (i - 1) \div 4
                 c == (i - 1) % 4
             IN IF c = 3 THEN 0 ELSE PixelByte(out, p, pix % width, pix \div width, c)]

\* the buffer after the loops; x < width and y < height are false for NaN,
\* so no pixel is written and the buffer is empty
Pixels(out, p) ==
  IF ~(IsNum(p.width) /\ IsNum(p.height)) THEN <<>>
  ELSE LET width == p.width[1]
       IN [i \in 1..BufferLength(p) |->
             LET pix == (i - 1) \div 4
                 c == (i - 1) % 4
             IN PixelByte(out, p, pix % width, pix \div width, c)]

\* new ImageData(pixels, width, height) accepts a buffer of nonzero length
\* 4 * width * height and throws otherwise
ImageDataAccepts(data, p) ==
  /\ Len(data) > 0
  /\ IsNum(p.width) /\ IsNum(p.height)
  /\ p.width[1] > 0
  /\ Len(data) = 4 * p.width[1] * p.height[1]

NoResult == [present |-> FALSE, data |-> <<>>, width |-> 0, height |-> 0]

----------------------------------------------------------------------------
(* Img2ImgModel.runInference: the checks before the forward pass *)

NotInitializedError == "the model is not initialized"
AbsentSessionError == "the model is absent in the sessions map"

runInferenceCheckNoLookup(init, sess) ==
  IF ~init \/ ~sess.present THEN NotInitializedError ELSE "none"

\* lines 131-137: the error thrown before any session call, or "none"
runInferenceCheck(init, sess) ==
  IF ~init \/ ~sess.present THEN NotInitializedError
  ELSE IF "model" \notin sess.roles THEN AbsentSessionError
  ELSE "none"

----------------------------------------------------------------------------
(* ImageCaption page: strings, streams and calls in flight *)

\* String.prototype.trim over the model's alphabet: blanks are " "
RECURSIVE TrimStart(_)
TrimStart(s) == IF s # <<>> /\ Head(s) = " " THEN TrimStart(Tail(s)) ELSE s
RECURSIVE TrimEnd(_)
TrimEnd(s) ==
  IF s # <<>> /\ s[Len(s)] = " " THEN TrimEnd(SubSeq(s, 1, Len(s) - 1)) ELSE s
Trim(s) == TrimEnd(TrimStart(s))

\* what the user can type into the prefix field
Prefixes == {<<>>, <<"a">>, <<" ", "a", " ">>}

\* the data URL FileReader produces for the selected file
DataURL == <<"u">>

\* piece[0] of the values model.processStream(imageURL, prefix) yields, in
\* order.  Decoding is deterministic, so the texts are a function of the
\* call's arguments; they are opaque to the page.  The two streams differ in
\* every position and one holds an empty text.
StreamTexts(prefix) ==
  IF Trim(prefix) = <<>>
  THEN << <<"b">>, <<"c", " ">>, <<"d">>, <<"e">> >>
  ELSE << <<"c", " ">>, <<>>, <<"b">>, <<"d">> >>

\* the concatenation of a sequence of texts, first to last
RECURSIVE Flatten(_)
Flatten(ps) == IF ps = <<>> THEN <<>> ELSE Head(ps) \o Flatten(Tail(ps))

ProcIds == 1..MaxProcs
\* a process() call: not running, or suspended in its for-await loop with its
\* prefix, its local caption and the fragments it has consumed so far
IdleProc == [active |-> FALSE, prefix |-> <<>>, caption |-> <<>>, pieces |-> <<>>]

InitialCaptionUntrimmed(prefix) == prefix \o <<" ">>

\* line 44: let caption = prefix.trim() + " "
InitialCaption(prefix) == Trim(prefix) \o <<" ">>

ConcatReversed(cap, piece) == piece \o cap

\* line 46: caption = caption.concat(piece[0])
Concat(cap, piece) == cap \o piece

InFlight == Cardinality({i \in ProcIds : procs[i].active})

\* line 110: the Process button is rendered and enabled
ProcessButtonEnabled == imageURL # <<>> /\ model /\ ~status.processing

----------------------------------------------------------------------------
(* ListTextModels and the catalog of text models *)

\* the members of TextModelType the catalog uses; a requested type is one of
\* them or undefined, and every member is a truthy value
TextModelType == {"Seq2Seq", "FeatureExtraction"}
Undefined == "undefined"
Truthy(type) == type # Undefined

\* the catalog: id, type, sizeMB and tags of each entry, in source order
models ==
  << [id |-> "grammar-t5-efficient-tiny", type |-> "Seq2Seq", sizeMB |-> 113,
      tags |-> <<"grammar", "t5">>],
     [id |-> "grammar-t5-efficient-tiny-quant", type |-> "Seq2Seq", sizeMB |-> 32,
      tags |-> <<"grammar", "t5">>],
     [id |-> "grammar-t5-efficient-mini", type |-> "Seq2Seq", sizeMB |-> 197,
      tags |-> <<"grammar", "t5">>],
     [id |-> "grammar-t5-efficient-mini-quant", type |-> "Seq2Seq", sizeMB |-> 38,
      tags |-> <<"grammar", "t5">>],
     [id |-> "t5-efficient-mini", type |-> "FeatureExtraction", sizeMB |-> 94,
      tags |-> <<"feature-extraction", "t5">>],
     [id |-> "t5-efficient-mini-quant", type |-> "FeatureExtraction", sizeMB |-> 38,
      tags |-> <<"feature-extraction", "t5">>],
     [id |-> "t5-flan-small", type |-> "Seq2Seq", sizeMB |-> 330,
      tags |-> <<"general", "t5-flan">>],
     [id |-> "summarization-cnn-dailymail", type |-> "Seq2Seq", sizeMB |-> 328,
      tags |-> <<"summarization", "t5">>],
     [id |-> "summarization-cnn-dailymail-quant", type |-> "Seq2Seq", sizeMB |-> 63,
      tags |-> <<"summarization", "t5">> ] >>

Range(seq) == {seq[i] : i \in 1..Len(seq)}

\* Array.prototype.includes
Includes(seq, x) == \E i \in 1..Len(seq) : seq[i] = x

\* the tags a caller can ask for: those of the catalog and one it does not use
TagNames == UNION {Range(models[i].tags) : i \in 1..Len(models)} \cup {"vision"}
\* the tags argument: undefined, or an array of at most MaxTags tags
NoTags == [given |-> FALSE, list |-> <<>>]
TagArguments ==
  {NoTags} \cup {[given |-> TRUE, list |-> l] :
                   l \in UNION {[1..n -> TagNames] : n \in 0..MaxTags}}

ListTextModelsAnyTag(tags, type) ==
  IF ~tags.given /\ ~Truthy(type) THEN models
  ELSE LET Keep(m) ==
             LET tagCheck == IF tags.given /\ Len(tags.list) > 0
                             THEN \E i \in 1..Len(tags.list) : Includes(m.tags, tags.list[i])
                             ELSE TRUE
                 typeCheck == IF Truthy(type) THEN m.type = type ELSE TRUE
             IN tagCheck /\ typeCheck
       IN SelectSeq(models, Keep)

\* lines 4-19; model.tags is an array in every catalog entry, so truthy
ListTextModels(tags, type) ==
  IF ~tags.given /\ ~Truthy(type) THEN models
  ELSE LET Keep(m) ==
             LET tagCheck == IF tags.given /\ Len(tags.list) > 0
                             THEN \A i \in 1..Len(tags.list) : Includes(m.tags, tags.list[i])
                             ELSE TRUE
                 typeCheck == IF Truthy(type) THEN m.type = type ELSE TRUE
             IN tagCheck /\ typeCheck
       IN SelectSeq(models, Keep)

----------------------------------------------------------------------------
(* Initial states *)

\* the other two programs, at rest
PageIdle ==
  /\ imageURL = <<>> /\ caption = <<>> /\ model = FALSE
  /\ status = [message |-> "select and load the model", processing |-> FALSE]
  /\ prefixValue = <<>> /\ loading = 0 /\ reading = 0
  /\ procs = [i \in ProcIds |-> IdleProc]

ListIdle ==
  /\ ltPc = "idle" /\ ltTags = NoTags
  /\ ltType = Undefined /\ ltResult = <<>>

ImgIdle ==
  /\ initialized = FALSE /\ preprocessor = NoPreprocessor
  /\ sessions = [present |-> FALSE, roles |-> {}]
  /\ pc = "idle" /\ input = InvalidInput /\ resize = 0 /\ image = NoImage
  /\ sessionRuns = 0 /\ output = NoOutput /\ plan = NoPlan
  /\ result = NoResult /\ error = "none"

\* an Img2ImgModel in any state init() can leave it in, no call made yet
Init ==
  /\ initialized \in BOOLEAN
  /\ preprocessor \in Preprocessors
  /\ sessions \in SessionMaps
  /\ pc = "idle" /\ input = InvalidInput /\ resize = 0 /\ image = NoImage
  /\ sessionRuns = 0 /\ output = NoOutput /\ plan = NoPlan
  /\ result = NoResult /\ error = "none"
  /\ PageIdle /\ ListIdle

----------------------------------------------------------------------------
(* Img2ImgModel.process, one action per stretch of code between awaits *)

Fail(msg) ==
  /\ pc' = "failed"
  /\ error' = msg

\* lines 34-39: the initialization check, then await Jimp.read(input)
ProcessCall ==
  /\ pc = "idle"
  /\ \E in \in Inputs, rs \in Resizes :
       /\ input' = in
       /\ resize' = rs
       /\ IF ~initialized \/ ~preprocessor.present
          THEN Fail(NotInitializedError)
          ELSE pc' = "read" /\ error' = error
  /\ UNCHANGED <<initialized, preprocessor, sessions, image, sessionRuns, output,
                 plan, result, pageVars, listVars>>

\* Jimp.read rejects: process rejects with the decoder's error
ReadFails ==
  /\ pc = "read"
  /\ ~input.ok
  /\ Fail("could not read the image")
  /\ UNCHANGED <<initialized, preprocessor, sessions, input, resize, image,
                 sessionRuns, output, plan, result, pageVars, listVars>>

\* lines 39-45 and 131-139: the image is read and resized, the tensor built,
\* runInference checks the model and awaits session.inputNames()
ReadDone ==
  /\ pc = "read"
  /\ input.ok
  /\ image' = ReadImage(input, resize)
  /\ LET e == runInferenceCheck(initialized, sessions)
     IN IF e # "none" THEN Fail(e) ELSE pc' = "inputNames" /\ error' = error
  /\ UNCHANGED <<initialized, preprocessor, sessions, input, resize,
                 sessionRuns, output, plan, result, pageVars, listVars>>

\* lines 140-141: session.run(feeds) is called
SessionRun ==
  /\ pc = "inputNames"
  /\ sessionRuns' = sessionRuns + 1
  /\ pc' = "run"
  /\ UNCHANGED <<initialized, preprocessor, sessions, input, resize, image,
                 output, plan, result, error, pageVars, listVars>>

\* the forward pass fails: runInference and process reject
SessionRunFails ==
  /\ pc = "run"
  /\ Fail("inference failed")
  /\ UNCHANGED <<initialized, preprocessor, sessions, input, resize, image,
                 sessionRuns, output, plan, result, pageVars, listVars>>

\* lines 141-142: the forward pass returns its output tensor
SessionRunDone ==
  /\ pc = "run"
  /\ \E out \in Outputs : output' = out
  /\ pc' = "outputNames"
  /\ UNCHANGED <<initialized, preprocessor, sessions, input, resize, image,
                 sessionRuns, plan, result, error, pageVars, listVars>>

\* lines 143-144 and 46-115: the crop, the pixel loop and the ImageData
Decode ==
  /\ pc = "outputNames"
  /\ LET p == CropPlan(preprocessor, image, output.dims)
         data == Pixels(output, p)
     IN /\ plan' = p
        /\ IF ImageDataAccepts(data, p)
           THEN /\ result' = [present |-> TRUE, data |-> data,
                              width |-> p.width[1], height |-> p.height[1]]
                /\ pc' = "done"
                /\ error' = error
           ELSE /\ result' = result
                /\ Fail("ImageData rejected the buffer")
  /\ UNCHANGED <<initialized, preprocessor, sessions, input, resize, image,
                 sessionRuns, output, pageVars, listVars>>

Next ==
  \/ ProcessCall
  \/ ReadFails
  \/ ReadDone
  \/ SessionRun
  \/ SessionRunFails
  \/ SessionRunDone
  \/ Decode

Spec == Init /\ [][Next]_vars

----------------------------------------------------------------------------
(* Claims about Img2ImgModel, checked under Spec *)

Abs(n) == IF n < 0 THEN 0 - n ELSE n

\* the model can run a forward pass
Ready ==
  /\ initialized /\ preprocessor.present
  /\ sessions.present /\ "model" \in sessions.roles

\* the crop and the pixel loop ran on a batched (rank 4) output tensor
Decoded == pc \in {"done", "failed"} /\ output # NoOutput
Decoded4 == Decoded /\ Len(output.dims) = 4

\* C1 (as claimed): with padding enabled the padded sizes are the smallest
\* multiples of padSize that hold the image, and the crop removes exactly the
\* padding: when the output is the padded size scaled by one whole factor on
\* both axes (factor 1 included), the cropped size is the image size scaled
\* by that factor, that is cropped * padded = image * output on each axis.
C1_CropRemovesPadding ==
  (Decoded4 /\ PadEnabled(preprocessor)) =>
    LET padSize == preprocessor.config.padSize
        paddedWidth == PaddedSize(image.width, padSize)
        paddedHeight == PaddedSize(image.height, padSize)
        WholeFactor ==
          /\ output.dims[4] % paddedWidth = 0
          /\ output.dims[3] % paddedHeight = 0
          /\ output.dims[4] * paddedHeight = output.dims[3] * paddedWidth
    IN /\ paddedWidth % padSize = 0 /\ paddedHeight % padSize = 0
       /\ paddedWidth >= image.width /\ paddedWidth - padSize < image.width
       /\ paddedHeight >= image.height /\ paddedHeight - padSize < image.height
       /\ WholeFactor =>
            /\ (plan.endX[1] - plan.startX[1]) * paddedWidth = image.width * output.dims[4]
            /\ (plan.endY[1] - plan.startY[1]) * paddedHeight = image.height * output.dims[3]

\* C2: with padding disabled the crop is the identity for every output
\* tensor, and a result image has the output tensor's width and height.
C2_IdentityCropWithoutPadding ==
  (Decoded /\ ~PadEnabled(preprocessor)) =>
    /\ plan.startX = Num(0) /\ plan.startY = Num(0)
    /\ plan.endX = Dim(output.dims, 3) /\ plan.endY = Dim(output.dims, 2)
    /\ result.present =>
         /\ Num(result.width) = Dim(output.dims, 3)
         /\ Num(result.height) = Dim(output.dims, 2)

C2_Witness ==
  /\ pc = "done" /\ preprocessor.config.present /\ ~preprocessor.config.pad
  /\ image.width = 3 /\ output.dims[4] = 4 /\ result.width = 4

\* C3: every colour byte of the result is in 0..255; a tensor value below 0
\* gives byte 0, a value above 1 gives byte 255, a value v in [0,1] gives
\* the byte nearest to v * 255; and decoding a rank 4 tensor never throws,
\* whatever its values.
C3_ClampedBytes ==
  /\ Decoded4 => pc = "done"
  /\ pc = "done" =>
       \A x \in 0..(result.width - 1), y \in 0..(result.height - 1), c \in 0..2 :
         LET size == output.dims[3] * output.dims[4]
             v == DataAt(output, c * size + (y + plan.startY[1]) * output.dims[4]
                                   + x + plan.startX[1])
             b == result.data[4 * (y * result.width + x) + c + 1]
         IN /\ b \in 0..255
            /\ (IsNum(v) /\ v[1] < 0) => b = 0
            /\ (IsNum(v) /\ v[1] > ValueDen) => b = 255
            /\ (IsNum(v) /\ v[1] >= 0 /\ v[1] <= ValueDen) =>
                 2 * Abs(b * ValueDen - 255 * v[1]) <= ValueDen

\* a result in which one read value was below 0, one above 1 and one strictly
\* inside, with the bytes 0, 255 and a byte strictly between
C3_Witness ==
  /\ pc = "done"
  /\ LET size == output.dims[3] * output.dims[4]
         Read(x, y, c) ==
           DataAt(output, c * size + (y + plan.startY[1]) * output.dims[4]
                            + x + plan.startX[1])
         Byte(x, y, c) == result.data[4 * (y * result.width + x) + c + 1]
         Some(Test(_, _)) ==
           \E x \in 0..(result.width - 1), y \in 0..(result.height - 1), c \in 0..2 :
             IsNum(Read(x, y, c)) /\ Test(Read(x, y, c)[1], Byte(x, y, c))
         Low(v, b) == v < 0 /\ b = 0
         High(v, b) == v > ValueDen /\ b = 255
         Inside(v, b) == v > 0 /\ v < ValueDen /\ b > 0 /\ b < 255
     IN Some(Low) /\ Some(High) /\ Some(Inside)

\* C4 (as claimed): decoding a 3- or 4-dimensional output tensor gives an
\* RGBA buffer of width * height * 4 bytes with every alpha byte 255.
C4_DecodeAnyRank ==
  Decoded =>
    /\ result.present
    /\ Len(result.data) = result.width * result.height * 4
    /\ \A i \in 1..(result.width * result.height) : result.data[4 * i] = 255

\* C4 (amended): decoding a 4-dimensional output tensor (batch x channels x
\* height x width) gives an RGBA buffer of exactly width * height * 4 bytes
\* for the cropped width and height, every alpha byte 255; with the identity
\* crop the buffer has the output tensor's width and height.
C4_DecodeRank4 ==
  Decoded4 =>
    /\ result.present
    /\ Num(result.width) = JSub(plan.endX, plan.startX)
    /\ Num(result.height) = JSub(plan.endY, plan.startY)
    /\ Len(result.data) = result.width * result.height * 4
    /\ \A x \in 0..(result.width - 1), y \in 0..(result.height - 1) :
         result.data[4 * (y * result.width + x) + 3 + 1] = 255
    /\ ~PadEnabled(preprocessor) =>
         result.width = output.dims[4] /\ result.height = output.dims[3]

\* the scenario at the model's scale: a 4-channel MaxOut x MaxOut tensor
\* decoded with the identity crop
C4_Witness ==
  /\ pc = "done" /\ ~PadEnabled(preprocessor)
  /\ output.dims[2] = 4 /\ output.dims[3] = MaxOut /\ output.dims[4] = MaxOut
  /\ Len(result.data) = MaxOut * MaxOut * 4
  /\ result.data[Len(result.data)] = 255

\* C5: with resize > 0 and max(width, height) > resize the larger dimension
\* becomes exactly resize and the other one the nearest whole size to its
\* scaled value (at least 1), so a 100x60 image with resize 50 becomes 50x30;
\* with resize = 0 or max(width, height) <= resize the size is unchanged.
C5_ResizeKeepsAspect ==
  (pc \in {"inputNames", "run", "outputNames", "done"}) =>
    LET m == Max(input.width, input.height)
        Nearest(n, side) ==
          /\ n >= 1
          /\ n = 1 \/ 2 * Abs(n * m - side * resize) <= m
    IN IF resize > 0 /\ m > resize
       THEN /\ Max(image.width, image.height) = resize
            /\ Nearest(image.width, input.width)
            /\ Nearest(image.height, input.height)
            /\ (input.width = 100 /\ input.height = 60 /\ resize = 50) =>
                 (image.width = 50 /\ image.height = 30)
       ELSE image.width = input.width /\ image.height = input.height

C5_Witness ==
  /\ pc = "done" /\ resize = 50
  /\ input.width = 100 /\ input.height = 60
  /\ image.width = 50 /\ image.height = 30

\* C6: a model that is not initialized, or has no preprocessor, no sessions
\* map or no session named "model", runs no forward pass and returns no
\* image, and its process call can only end failed with an error; a forward
\* pass is run only by a model that has all of them.
C6_NoForwardPassUnlessReady ==
  /\ ~Ready =>
       /\ sessionRuns = 0
       /\ ~result.present
       /\ pc \in {"idle", "read", "failed"}
  /\ pc = "failed" => error # "none"
  /\ (pc = "failed" /\ ~Ready /\ input.ok) =>
       error \in {NotInitializedError, AbsentSessionError}
  /\ sessionRuns > 0 => Ready

C6_Witness ==
  /\ pc = "failed" /\ error = AbsentSessionError
  /\ initialized /\ preprocessor.present /\ sessions.present
  /\ sessionRuns = 0 /\ ~result.present

\* C8: every pixel (x, y) of the cropped image reads channel c at
\* c * dims[2] * dims[3] + (y + startY) * dims[3] + (x + startX): the row of
\* the read is y + startY and its column x + startX in rows of the output
\* width dims[3], and both lie inside the channel's plane.
C8_ReadsInsidePlane ==
  pc = "done" =>
    \A x \in 0..(result.width - 1), y \in 0..(result.height - 1) :
      LET idx == tensorIdx(plan, output.dims, x, y)
      IN /\ idx \div output.dims[4] = y + plan.startY[1]
         /\ idx % output.dims[4] = x + plan.startX[1]
         /\ 0 <= x + plan.startX[1] /\ x + plan.startX[1] < output.dims[4]
         /\ 0 <= y + plan.startY[1] /\ y + plan.startY[1] < output.dims[3]
         /\ idx >= 0 /\ idx < output.dims[3] * output.dims[4]

\* a crop with non-zero offsets on both axes, narrower than the output
C8_Witness ==
  /\ pc = "done" /\ PadEnabled(preprocessor)
  /\ plan.startX[1] > 0 /\ plan.startY[1] > 0
  /\ result.width < output.dims[4] /\ result.height > 1

----------------------------------------------------------------------------
(* ImageCaption page, one action per stretch of a handler between awaits *)

InitCaption == ImgIdle /\ PageIdle /\ ListIdle

\* lines 18-20: the ModelSelector callback; it is not tied to status.processing
LoadModelStart ==
  /\ loading < MaxLoads
  /\ loading' = loading + 1
  /\ status' = [message |-> "loading the model", processing |-> TRUE]
  /\ UNCHANGED <<imageURL, caption, model, prefixValue, reading, procs, imgVars, listVars>>

\* lines 21-22: MultimodalModel.create resolved
LoadModelDone ==
  /\ loading > 0
  /\ loading' = loading - 1
  /\ model' = TRUE
  /\ status' = [message |-> "ready", processing |-> FALSE]
  /\ UNCHANGED <<imageURL, caption, prefixValue, reading, procs, imgVars, listVars>>

\* lines 28-36: the file input (disabled while status.processing) changed
selectFileImage ==
  /\ ~status.processing
  /\ reading < MaxReads
  /\ reading' = reading + 1
  /\ UNCHANGED <<imageURL, caption, model, status, prefixValue, loading, procs,
                 imgVars, listVars>>

\* lines 31-33: reader.onload
ReaderOnload ==
  /\ reading > 0
  /\ reading' = reading - 1
  /\ imageURL' = DataURL
  /\ UNCHANGED <<caption, model, status, prefixValue, loading, procs, imgVars, listVars>>

\* line 123: the prefix field, rendered with the image, disabled while processing
TypePrefix ==
  /\ imageURL # <<>> /\ ~status.processing
  /\ \E p \in Prefixes : p # prefixValue /\ prefixValue' = p
  /\ UNCHANGED <<imageURL, caption, model, status, loading, reading, procs,
                 imgVars, listVars>>

\* lines 38-45: a click on Process, up to the first await of the stream
ProcessStart ==
  /\ ProcessButtonEnabled
  /\ \E i \in ProcIds :
       /\ ~procs[i].active
       /\ \A j \in ProcIds : j < i => procs[j].active
       /\ IF ~model
          THEN UNCHANGED <<status, procs>>
          ELSE /\ status' = [message |-> "processing the image", processing |-> TRUE]
               /\ procs' = [procs EXCEPT ![i] =
                    [active |-> TRUE, prefix |-> prefixValue,
                     caption |-> InitialCaption(prefixValue), pieces |-> <<>>]]
  /\ UNCHANGED <<imageURL, caption, model, prefixValue, loading, reading,
                 imgVars, listVars>>

\* lines 45-47: the stream of call i yields its next fragment
StreamPiece ==
  \E i \in ProcIds :
    /\ procs[i].active
    /\ Len(procs[i].pieces) < MaxPieces
    /\ Len(procs[i].pieces) < Len(StreamTexts(procs[i].prefix))
    /\ LET text == StreamTexts(procs[i].prefix)[Len(procs[i].pieces) + 1]
           c == Concat(procs[i].caption, text)
       IN /\ procs' = [procs EXCEPT ![i].caption = c,
                                    ![i].pieces = Append(@, text)]
          /\ caption' = c
    /\ UNCHANGED <<imageURL, model, status, prefixValue, loading, reading,
                   imgVars, listVars>>

\* lines 48-49: the stream of call i ends
StreamEnd ==
  \E i \in ProcIds :
    /\ procs[i].active
    /\ procs' = [procs EXCEPT ![i] = IdleProc]
    /\ status' = [message |-> "processing finished", processing |-> FALSE]
    /\ UNCHANGED <<imageURL, caption, model, prefixValue, loading, reading,
                   imgVars, listVars>>

NextCaption ==
  \/ LoadModelStart
  \/ LoadModelDone
  \/ selectFileImage
  \/ ReaderOnload
  \/ TypePrefix
  \/ ProcessStart
  \/ StreamPiece
  \/ StreamEnd

SpecCaption == InitCaption /\ [][NextCaption]_vars

----------------------------------------------------------------------------
(* Claims about the ImageCaption page, checked under SpecCaption *)

\* call i consumed a fragment in this step
ConsumedFragment(i) ==
  /\ procs[i].active /\ procs'[i].active
  /\ Len(procs'[i].pieces) = Len(procs[i].pieces) + 1

\* C7 (as claimed): after each fragment k of a call the displayed string is
\* the prefix followed by the first k fragments.
C7_DisplayedIsPrefixPlusFragments ==
  [][\A i \in ProcIds :
       ConsumedFragment(i) =>
         caption' = procs'[i].prefix \o Flatten(procs'[i].pieces)]_vars

\* C7 (amended): after each fragment k >= 1 of a call the displayed string
\* is the trimmed prefix, one blank, then the first k fragments in the order
\* yielded; that is also the call's own caption, so it is the last string
\* the call displays when its stream ends.
C7_DisplayedIsTrimmedPrefixBlankFragments ==
  [][\A i \in ProcIds :
       /\ ConsumedFragment(i) =>
            caption' = Trim(procs'[i].prefix) \o <<" ">> \o Flatten(procs'[i].pieces)
       /\ procs'[i].active =>
            procs'[i].caption =
              Trim(procs'[i].prefix) \o <<" ">> \o Flatten(procs'[i].pieces)]_vars

\* a call whose prefix has blanks at both ends displayed two fragments
C7_Witness ==
  \E i \in ProcIds :
    /\ procs[i].active /\ procs[i].pieces = << <<"c", " ">>, <<>> >>
    /\ procs[i].prefix = <<" ", "a", " ">>
    /\ caption = <<"a", " ", "c", " ">>

\* C9 (as claimed): status.processing is true whenever a process() call is
\* in flight, and at most one stream is being iterated at a time.
C9_ProcessingWhileInFlight ==
  /\ InFlight > 0 => status.processing
  /\ InFlight <= 1

----------------------------------------------------------------------------
(* ListTextModels: a call with any arguments *)

InitList ==
  /\ ImgIdle /\ PageIdle
  /\ ltPc = "idle" /\ ltResult = <<>>
  /\ ltTags \in TagArguments
  /\ ltType \in TextModelType \cup {Undefined}

ListCall ==
  /\ ltPc = "idle"
  /\ ltResult' = ListTextModels(ltTags, ltType)
  /\ ltPc' = "done"
  /\ UNCHANGED <<ltTags, ltType, imgVars, pageVars>>

NextList == ListCall

SpecList == InitList /\ [][NextList]_vars

====
